---- MODULE Spec2Model ----
(***************************************************************************)
(* Model of zerver/management/commands/fix_unreads.py: the management      *)
(* command that repairs stale unread flags of one user.  fix(user_profile) *)
(* runs fix_unsubscribed and fix_pre_pointer over one database cursor and  *)
(* then calls connection.commit().                                         *)
(*                                                                         *)
(* The tables of the message store (zerver_recipient, zerver_stream,       *)
(* zerver_message, zerver_subscription, zerver_usermessage) appear with    *)
(* the columns the queries of the command read or write.                   *)
(***************************************************************************)
EXTENDS Integers, Sequences, FiniteSets, TLC

\* ------------------------------------------------------------------ bounds
MaxMsg == 3
MaxRules == 1
MaxRuns == 2

\* -------------------------------------------------------- store contents
\* zerver_recipient.type of a stream recipient, as written in the queries
STREAM == 2

Users == {1, 2}
Messages == 1 .. MaxMsg
Recipients == 1 .. 3

\* zerver_recipient rows: recipients 1 and 2 are streams 11 and 12,
\* recipient 3 is a personal (non-stream) recipient
zerver_recipient ==
  <<[type |-> STREAM, type_id |-> 11],
    [type |-> STREAM, type_id |-> 12],
    [type |-> 1, type_id |-> 2]>>

\* zerver_stream rows; names are sequences of characters
zerver_stream ==
  {[id |-> 11, name |-> <<"G">>, realm_id |-> 1],
   [id |-> 12, name |-> <<"o">>, realm_id |-> 1],
   [id |-> 13, name |-> <<"x">>, realm_id |-> 2]}

\* UserProfile.realm_id
realm_id(u) == 1

\* zerver_message rows (recipient_id, subject) by message id
zerver_message(m) ==
  [recipient_id |-> ((m - 1) % 3) + 1,
   subject |-> IF m % 2 = 1 THEN <<"A">> ELSE <<"b">>]

\* zerver_usermessage rows: one per (user, message); id, user_profile_id
\* and message_id columns
UmIds == {100 * u + m : u \in Users, m \in Messages}
um_user_profile_id(um) == um \div 100
um_message_id(um) == um % 100

\* values of zerver_usermessage.flags: bit 0 is "read", bit 1 is another
\* flag of the row; 2 is an unread row, 3 a read one
FlagValues == {2, 3}

\* a zerver_subscription row of (user, recipient), or its absence
NoRow == [row |-> FALSE, active |-> FALSE, in_home_view |-> FALSE]
SubStates ==
  {NoRow,
   [row |-> TRUE, active |-> FALSE, in_home_view |-> TRUE],
   [row |-> TRUE, active |-> TRUE, in_home_view |-> TRUE],
   [row |-> TRUE, active |-> TRUE, in_home_view |-> FALSE]}

\* the subscription of a user to a non-stream recipient is in its home view
SubStatesOf(r) ==
  IF zerver_recipient[r].type = STREAM THEN SubStates
  ELSE {s \in SubStates : s.row => s.in_home_view}

\* rows of user_profile.muted_topics: [stream name, topic]
MuteRules ==
  {<<<<" ", "g">>, <<"a">>>>, <<<<" ", "g">>, <<"B">>>>,
   <<<<"O">>, <<"B">>>>, <<<<"x">>, <<"a">>>>}
MuteLists == UNION {[1 .. n -> MuteRules] : n \in 0 .. MaxRules}

\* user_profile.pointer: <<>> is None, <<p>> is the integer p; unset, at the
\* first message and at the last message
Pointers == {<<>>, <<0>>, <<1>>, <<MaxMsg>>}

\* ------------------------------------------------------- text operations
LowerChar(c) ==
  CASE c = "A" -> "a"
    [] c = "B" -> "b"
    [] c = "G" -> "g"
    [] c = "O" -> "o"
    [] c = "X" -> "x"
    [] OTHER -> c

\* str.lower()
Lower(s) == [i \in 1 .. Len(s) |-> LowerChar(s[i])]

RECURSIVE LStrip(_)
LStrip(s) == IF s # <<>> /\ Head(s) = " " THEN LStrip(Tail(s)) ELSE s

RECURSIVE RStrip(_)
RStrip(s) ==
  IF s # <<>> /\ s[Len(s)] = " " THEN RStrip(SubSeq(s, 1, Len(s) - 1)) ELSE s

\* str.strip()
Strip(s) == RStrip(LStrip(s))

\* ------------------------------------------------------------------ state
VARIABLES
  pc,                      \* position inside fix(user_profile)
  run,                     \* number of the current invocation of the command
  user_profile,            \* id of the user being fixed
  pointer,                 \* user_profile.pointer
  muted_topics,            \* user_profile.muted_topics (decoded rows)
  subs,                    \* zerver_subscription
  flags,                   \* zerver_usermessage.flags as persisted
  tx,                      \* zerver_usermessage.flags as seen by the cursor
  autocommit,              \* mode of the connection
  stale_recipient_ids,     \* recipient_ids of fix_unsubscribed
  stale_user_message_ids,  \* user_message_ids of fix_unsubscribed
  tups,                    \* tups of build_topic_mute_checker
  pre_recipient_ids,       \* recipient_ids of fix_pre_pointer
  pre_user_message_ids,    \* user_message_ids of fix_pre_pointer
  issued,                  \* statements executed in the current run
  err,                     \* exception that ended the current run
  flags0,                  \* persisted flags when the current run started
  first                    \* outcome of the first run

vars ==
  <<pc, run, user_profile, pointer, muted_topics, subs, flags, tx, autocommit,
    stale_recipient_ids, stale_user_message_ids, tups, pre_recipient_ids,
    pre_user_message_ids, issued, err, flags0, first>>

store == <<user_profile, pointer, muted_topics, subs, autocommit>>

\* the subscriptions and flags of the user that is not being fixed
OtherSubs ==
  [r \in Recipients |->
     [row |-> TRUE, active |-> (r # 1), in_home_view |-> TRUE]]

Init ==
  /\ pc = "find_recipients"
  /\ run = 1
  /\ user_profile = 1
  /\ pointer \in Pointers
  /\ muted_topics \in MuteLists
  /\ subs \in [Users -> [Recipients -> SubStates]]
  /\ \A r \in Recipients : subs[user_profile][r] \in SubStatesOf(r)
  /\ \A u \in Users \ {user_profile} : subs[u] = OtherSubs
  /\ flags \in [UmIds -> FlagValues]
  /\ \A um \in UmIds : um_user_profile_id(um) # user_profile => flags[um] = 2
  /\ tx = flags
  /\ autocommit \in BOOLEAN
  /\ stale_recipient_ids = {}
  /\ stale_user_message_ids = {}
  /\ tups = {}
  /\ pre_recipient_ids = {}
  /\ pre_user_message_ids = {}
  /\ issued = {}
  /\ err = "none"
  /\ flags0 = flags
  /\ first = [done |-> FALSE, committed |-> FALSE, flags |-> flags]

\* ---------------------------------------------------------------- queries
\* find_recipients with the NOT of its WHERE clause left out
find_recipients_rows_active ==
  {r \in Recipients :
     /\ subs[user_profile][r].row
     /\ zerver_recipient[r].type = STREAM
     /\ subs[user_profile][r].active}

\* SELECT of find_recipients
find_recipients_rows ==
  {r \in Recipients :
     /\ subs[user_profile][r].row
     /\ zerver_recipient[r].type = STREAM
     /\ ~subs[user_profile][r].active}

\* find without the user_profile_id condition
find_rows_any_user ==
  {um \in UmIds :
     /\ tx[um] % 2 = 0
     /\ zerver_message(um_message_id(um)).recipient_id \in stale_recipient_ids}

\* SELECT of find
find_rows ==
  {um \in UmIds :
     /\ um_user_profile_id(um) = user_profile
     /\ tx[um] % 2 = 0
     /\ zerver_message(um_message_id(um)).recipient_id \in stale_recipient_ids}

\* SET flags = 1, an overwrite of the field
BitOr1_overwrite(f) == 1

\* flags | 1
BitOr1(f) == IF f % 2 = 0 THEN f + 1 ELSE f

\* UPDATE zerver_usermessage SET flags = flags | 1 WHERE id IN (ids)
update_rows(ids) ==
  [um \in UmIds |-> IF um \in ids THEN BitOr1(tx[um]) ELSE tx[um]]

\* Stream.objects.get without the realm_id condition
stream_get_any_realm(name, realm) ==
  {s \in zerver_stream : Lower(s.name) = Lower(Strip(name))}

\* Stream.objects.get(name__iexact=name.strip(), realm_id=...): the matching
\* rows; get() raises unless there is exactly one
stream_get(name, realm) ==
  {s \in zerver_stream :
     Lower(s.name) = Lower(Strip(name)) /\ s.realm_id = realm}

Rows(list) == {list[i] : i \in 1 .. Len(list)}

\* build_topic_mute_checker raises when a name of the mute list has no stream
build_raises ==
  \E row \in Rows(muted_topics) :
    stream_get(row[1], realm_id(user_profile)) = {}

\* tups of build_topic_mute_checker
build_tups ==
  {<<(CHOOSE s \in stream_get(row[1], realm_id(user_profile)) : TRUE).id,
     Lower(row[2])>> : row \in Rows(muted_topics)}

\* is_muted comparing the topic as it is spelled
is_muted_exact(stream_id, topic) == <<stream_id, topic>> \in tups

\* is_muted of build_topic_mute_checker
is_muted(stream_id, topic) == <<stream_id, Lower(topic)>> \in tups

\* "pointer is None" in place of "not pointer"
Falsy_none(p) == p = <<>>

\* not pointer
Falsy(p) == IF p = <<>> THEN TRUE ELSE p[1] = 0

\* SELECT of find_non_muted_recipients
find_non_muted_recipients_rows ==
  {r \in Recipients :
     /\ subs[user_profile][r].row
     /\ zerver_recipient[r].type = STREAM
     /\ subs[user_profile][r].in_home_view
     /\ subs[user_profile][r].active}

\* SELECT of find_old_ids: rows (um_id, stream_id, topic)
find_old_ids_rows ==
  {<<um,
     zerver_recipient[zerver_message(um_message_id(um)).recipient_id].type_id,
     zerver_message(um_message_id(um)).subject>> :
     um \in {x \in UmIds :
               /\ um_user_profile_id(x) = user_profile
               /\ um_message_id(x) <= pointer[1]
               /\ tx[x] % 2 = 0
               /\ zerver_message(um_message_id(x)).recipient_id
                    \in pre_recipient_ids}}

\* the loop of find_old_ids over the rows
find_old_ids_filter(rows) ==
  {row[1] : row \in {x \in rows : ~is_muted(x[2], x[3])}}

\* ---------------------------------------------------------------- actions
locals ==
  <<stale_recipient_ids, stale_user_message_ids, tups, pre_recipient_ids,
    pre_user_message_ids>>

\* an exception leaves fix() before connection.commit(): statements that
\* were not committed are discarded with the connection
Raise(e) ==
  /\ pc' = "aborted"
  /\ err' = e
  /\ tx' = flags
  /\ UNCHANGED <<run, store, flags, flags0, first>>

\* a statement that fails in the store (connection or query error)
StoreError(stmt) ==
  /\ issued' = issued \cup {stmt}
  /\ Raise("StoreError")
  /\ UNCHANGED locals

find_recipients ==
  /\ pc = "find_recipients"
  /\ \/ /\ issued' = issued \cup {"find_recipients"}
        /\ stale_recipient_ids' = find_recipients_rows
        /\ pc' = IF find_recipients_rows = {} THEN "fix_pre_pointer" ELSE "find"
        /\ UNCHANGED <<run, store, flags, tx, stale_user_message_ids, tups,
                       pre_recipient_ids, pre_user_message_ids, err, flags0,
                       first>>
     \/ StoreError("find_recipients")

find ==
  /\ pc = "find"
  /\ \/ /\ issued' = issued \cup {"find"}
        /\ stale_user_message_ids' = find_rows
        /\ pc' = IF find_rows = {} THEN "fix_pre_pointer" ELSE "fix"
        /\ UNCHANGED <<run, store, flags, tx, stale_recipient_ids, tups,
                       pre_recipient_ids, pre_user_message_ids, err, flags0,
                       first>>
     \/ StoreError("find")

\* fix() nested in fix_unsubscribed
fix_unsubscribed_fix ==
  /\ pc = "fix"
  /\ \/ /\ issued' = issued \cup {"fix"}
        /\ tx' = update_rows(stale_user_message_ids)
        /\ flags' = IF autocommit THEN update_rows(stale_user_message_ids)
                    ELSE flags
        /\ pc' = "fix_pre_pointer"
        /\ UNCHANGED <<run, store, locals, err, flags0, first>>
     \/ StoreError("fix")

\* entry of fix_pre_pointer: the pointer test and build_topic_mute_checker
fix_pre_pointer ==
  /\ pc = "fix_pre_pointer"
  /\ \/ /\ Falsy(pointer)
        /\ pc' = "commit"
        /\ UNCHANGED <<run, store, flags, tx, locals, issued, err, flags0,
                       first>>
     \/ /\ ~Falsy(pointer)
        /\ build_raises
        /\ issued' = issued \cup {"stream_get"}
        /\ Raise("DoesNotExist")
        /\ UNCHANGED locals
     \/ /\ ~Falsy(pointer)
        /\ ~build_raises
        /\ issued' = issued \cup {"stream_get"}
        /\ tups' = build_tups
        /\ pc' = "find_non_muted_recipients"
        /\ UNCHANGED <<run, store, flags, tx, stale_recipient_ids,
                       stale_user_message_ids, pre_recipient_ids,
                       pre_user_message_ids, err, flags0, first>>

find_non_muted_recipients ==
  /\ pc = "find_non_muted_recipients"
  /\ \/ /\ issued' = issued \cup {"find_non_muted_recipients"}
        /\ pre_recipient_ids' = find_non_muted_recipients_rows
        /\ pc' = "find_old_ids"
        /\ UNCHANGED <<run, store, flags, tx, stale_recipient_ids,
                       stale_user_message_ids, tups, pre_user_message_ids,
                       err, flags0, first>>
     \/ StoreError("find_non_muted_recipients")

\* with no recipient the statement reads "recipient_id in ()", which the
\* store rejects as a syntax error
find_old_ids ==
  /\ pc = "find_old_ids"
  /\ \/ /\ pre_recipient_ids # {}
        /\ issued' = issued \cup {"find_old_ids"}
        /\ pre_user_message_ids' = find_old_ids_filter(find_old_ids_rows)
        /\ pc' = "commit"
        /\ UNCHANGED <<run, store, flags, tx, stale_recipient_ids,
                       stale_user_message_ids, tups, pre_recipient_ids, err,
                       flags0, first>>
     \/ /\ pre_recipient_ids = {}
        /\ issued' = issued \cup {"find_old_ids"}
        /\ Raise("ProgrammingError")
        /\ UNCHANGED locals
     \/ /\ pre_recipient_ids # {}
        /\ StoreError("find_old_ids")

\* connection.commit()
commit ==
  /\ pc = "commit"
  /\ pc' = "committed"
  /\ flags' = tx
  /\ UNCHANGED <<run, store, tx, locals, issued, err, flags0, first>>

\* the command is invoked again for the same user
handle ==
  /\ pc \in {"committed", "aborted"}
  /\ run < MaxRuns
  /\ run' = run + 1
  /\ pc' = "find_recipients"
  /\ first' = IF first.done THEN first
              ELSE [done |-> TRUE, committed |-> (pc = "committed"),
                    flags |-> flags]
  /\ flags0' = flags
  /\ tx' = flags
  /\ stale_recipient_ids' = {}
  /\ stale_user_message_ids' = {}
  /\ tups' = {}
  /\ pre_recipient_ids' = {}
  /\ pre_user_message_ids' = {}
  /\ issued' = {}
  /\ err' = "none"
  /\ UNCHANGED <<store, flags>>

Next ==
  \/ find_recipients
  \/ find
  \/ fix_unsubscribed_fix
  \/ fix_pre_pointer
  \/ find_non_muted_recipients
  \/ find_old_ids
  \/ commit
  \/ handle

Spec == Init /\ [][Next]_vars

\* ------------------------------------------- vocabulary of the properties
MyRows == {um \in UmIds : um_user_profile_id(um) = user_profile}
Recip(um) == zerver_message(um_message_id(um)).recipient_id
Subject(um) == zerver_message(um_message_id(um)).subject
IsChannel(r) == zerver_recipient[r].type = STREAM
IsRead(f) == f % 2 = 1
MySub(r) == subs[user_profile][r]
InactiveRow(r) == MySub(r).row /\ ~MySub(r).active
NoActiveSub(r) == ~(MySub(r).row /\ MySub(r).active)
ActiveHome(r) == MySub(r).row /\ MySub(r).active /\ MySub(r).in_home_view
PointerSet == pointer # <<>> /\ pointer # <<0>>

\* a stream of the user's realm carries the name, ignoring case and
\* surrounding blanks
NameResolvesTo(name, stream_id) ==
  \E s \in zerver_stream :
    /\ s.id = stream_id
    /\ s.realm_id = realm_id(user_profile)
    /\ Lower(s.name) = Lower(Strip(name))

UnknownChannel ==
  \E i \in 1 .. Len(muted_topics) :
    \A s \in zerver_stream : ~NameResolvesTo(muted_topics[i][1], s.id)

\* the (channel, topic) of the row matches a rule of the current mute list
MutedByRule(um) ==
  \E i \in 1 .. Len(muted_topics) :
    /\ NameResolvesTo(muted_topics[i][1], zerver_recipient[Recip(um)].type_id)
    /\ Lower(muted_topics[i][2]) = Lower(Subject(um))

\* rows in the scope of the Pre-Marker pass
PrePointerRow(um) ==
  /\ um \in MyRows
  /\ PointerSet
  /\ um_message_id(um) <= pointer[1]
  /\ IsChannel(Recip(um))
  /\ ActiveHome(Recip(um))

PrePcs == {"fix_pre_pointer", "find_non_muted_recipients", "find_old_ids"}
PreStatements == {"stream_get", "find_non_muted_recipients", "find_old_ids"}

\* ------------------------------------------------------------- properties

\* C1 as stated: after a successful repair every UserMessage of the user in
\* a channel without an active Subscription (inactive row or no row at all)
\* is read.
C1_Original ==
  pc = "committed" =>
    \A um \in MyRows :
      (IsChannel(Recip(um)) /\ NoActiveSub(Recip(um))) => IsRead(flags[um])

\* C1 amended: after a successful repair every UserMessage of the user in a
\* channel for which the user holds an inactive Subscription row is read.
C1_InactiveRead ==
  pc = "committed" =>
    \A um \in MyRows :
      (IsChannel(Recip(um)) /\ InactiveRow(Recip(um))) => IsRead(flags[um])

C1_Witness ==
  /\ pc = "committed"
  /\ \E um \in MyRows :
       /\ IsChannel(Recip(um)) /\ InactiveRow(Recip(um))
       /\ ~IsRead(flags0[um]) /\ IsRead(flags[um])

\* C2: after a successful repair of a user with a set pointer, every
\* UserMessage at or before the pointer in an active, in_home_view channel
\* whose (channel, topic) is not muted is read.
C2_PrePointerRead ==
  pc = "committed" =>
    \A um \in UmIds :
      (PrePointerRow(um) /\ ~MutedByRule(um)) => IsRead(flags[um])

\* C3: a repair that ends with an error leaves the persisted flags as they
\* were when it started.
C3_Atomic == pc = "aborted" => flags = flags0

\* C4: a second successful repair right after a first successful one leaves
\* the flags as the first left them and finds no row in either pass.
C4_Idempotent ==
  (run > 1 /\ first.committed /\ pc = "committed") =>
    /\ flags = first.flags
    /\ stale_user_message_ids = {}
    /\ pre_user_message_ids = {}

\* C5: every step leaves the bits above bit 0 of every persisted row as they
\* were and never clears bit 0.
C5_BitsPreserved ==
  [][\A um \in UmIds :
       /\ flags'[um] \div 2 = flags[um] \div 2
       /\ IsRead(flags[um]) => IsRead(flags'[um])]_vars

C5_Witness == \E um \in UmIds : flags0[um] = 2 /\ flags[um] = 3

\* C6: a row in the scope of the Pre-Marker pass whose (channel, topic)
\* matches a mute rule is never selected by the pass, and the steps of the
\* pass leave its flags as they were.
C6_MuteExclusion ==
  [][\A um \in UmIds :
       (PrePointerRow(um) /\ MutedByRule(um)) =>
         /\ um \notin pre_user_message_ids'
         /\ pc \in PrePcs => flags'[um] = flags[um]
         /\ (pc \in PrePcs /\ pc' # "aborted") => tx'[um] = tx[um]]_vars

C6_Witness ==
  /\ pc = "commit"
  /\ "find_old_ids" \in issued
  /\ \E um \in UmIds :
       /\ PrePointerRow(um) /\ MutedByRule(um)
       /\ ~IsRead(tx[um])
       /\ \A i \in 1 .. Len(muted_topics) : muted_topics[i][2] # Subject(um)

\* C7 as stated: a mute rule naming a channel that does not resolve keeps
\* the repair from committing, whatever the pointer.
C7_Original == UnknownChannel => pc # "committed"

\* C7 amended: with a set pointer, a mute rule naming a channel that does
\* not resolve ends the repair with an error before the queries of the
\* Pre-Marker pass; the repair never commits.
C7_UnknownChannelFatal ==
  (UnknownChannel /\ PointerSet) =>
    /\ pc \notin {"find_non_muted_recipients", "find_old_ids", "commit",
                  "committed"}
    /\ pc = "aborted" => err \in {"DoesNotExist", "StoreError"}

C7_Witness ==
  UnknownChannel /\ PointerSet /\ pc = "aborted" /\ err = "DoesNotExist"

\* C8: after a successful repair of a user whose pointer is null or zero,
\* the Pre-Marker pass has executed no statement and selected no row, the
\* unread rows of actively subscribed channels are as they were, and the
\* rows of inactively subscribed channels are read.
C8_UnsetPointerNoOp ==
  (~PointerSet /\ pc = "committed") =>
    /\ issued \cap PreStatements = {}
    /\ pre_user_message_ids = {}
    /\ \A um \in MyRows :
         /\ (IsChannel(Recip(um)) /\ MySub(Recip(um)).active
               /\ ~IsRead(flags0[um])) => flags[um] = flags0[um]
         /\ (IsChannel(Recip(um)) /\ InactiveRow(Recip(um)))
               => IsRead(flags[um])

C8_Witness ==
  /\ ~PointerSet /\ pc = "committed"
  /\ \E um \in MyRows :
       /\ IsChannel(Recip(um)) /\ MySub(Recip(um)).active
       /\ ~IsRead(flags[um])
  /\ \E um \in MyRows :
       /\ IsChannel(Recip(um)) /\ InactiveRow(Recip(um))
       /\ ~IsRead(flags0[um]) /\ IsRead(flags[um])

\* C9: every step keeps the rows of zerver_usermessage and zerver_subscription
\* and changes the flags only of rows of the user that were unread, are
\* addressed to a channel, and violate INV1 (inactive Subscription) or INV2
\* (at or before the pointer, active and in_home_view, not muted).
C9_OnlyViolatingRows ==
  [][/\ subs' = subs
     /\ DOMAIN flags' = DOMAIN flags
     /\ \A um \in UmIds :
          flags'[um] # flags[um] =>
            /\ um \in MyRows
            /\ ~IsRead(flags[um])
            /\ IsChannel(Recip(um))
            /\ \/ InactiveRow(Recip(um))
               \/ PrePointerRow(um) /\ ~MutedByRule(um)]_vars

C9_Witness == \E um \in UmIds : flags[um] # flags0[um]

\* C10: an empty stale-recipient set ends the Stale-Subscription pass
\* without the message query or the update, and an empty eligible-recipient
\* set does not make the Pre-Marker pass fail.
C10_EmptySets ==
  /\ (pc # "find_recipients" /\ find_recipients_rows = {})
       => issued \cap {"find", "fix"} = {}
  /\ (PointerSet /\ find_non_muted_recipients_rows = {} /\ pc = "aborted")
       => err \in {"DoesNotExist", "StoreError"}

====
